---- MODULE Spec2Model ----
(***************************************************************************)
(* A model of the AkademikAI RAG service:                                  *)
(*   - the POST /api/v1/ask handler and RAGPipeline.answer  (Spec)         *)
(*   - load_and_prepare_documents                           (SpecLoader)   *)
(*   - Settings construction at import time                 (SpecSettings) *)
(*   - the lru_cache singleton providers under threads      (SpecDeps)     *)
(***************************************************************************)
EXTENDS Integers, Sequences, FiniteSets, TLC

VARIABLES
    \* ---- POST /api/v1/ask and RAGPipeline.answer
    pc,             \* position of the request in ask / answer
    body,           \* the raw request body
    request,        \* the validated AskRequest, or NoRequest
    relevant_docs,  \* answer's local: what retriever.invoke(question) returned
    prompt,         \* the filled prompt parameters handed to the llm, or NoPrompt
    retrieverCalls, \* retriever invocations made for the current request
    llmCalls,       \* llm invocations made for the current request
    result,         \* the dict returned by RAGPipeline.answer, or NoResult
    exc,            \* message of the exception raised for the current request
    response,       \* the HTTP response of the current request
    failedBefore,   \* an earlier request of this process ended in an exception
    \* ---- load_and_prepare_documents
    ld_file,        \* the file's lines, or NoFile
    ld_start,       \* start argument
    ld_stop,        \* stop argument (NoStop for None)
    ld_i,           \* 0-based index of the next line to read
    documents,      \* the documents list
    ld_warnings,    \* line numbers (i + 1) warned about
    ld_pc,          \* "open" | "loop" | "returned" | "raised"
    \* ---- config.Settings at process start
    os_environ,     \* OPENAI_API_KEY in the process environment, or Absent
    dotenv,         \* OPENAI_API_KEY in the .env file, or Absent
    settings,       \* the Settings instance's OPENAI_API_KEY, or Unset
    phase,          \* "start" | "dotenv_loaded" | "imported" | "import_failed" | "serving"
    served,         \* requests served by the process
    \* ---- core.dependencies under the request thread pool
    db_exists,      \* settings.DB_PATH.exists()
    cache,          \* provider -> memoized instance, or NoInstance
    executions,     \* provider -> times its body ran
    next_id,        \* identity of the next constructed object
    tpc,            \* thread -> position
    locals,         \* thread -> its frames' locals
    got,            \* thread -> the pipeline instance last injected into its request
    requests,       \* thread -> requests it has begun
    tresponse,      \* thread -> the HTTP response of its current request
    \* ---- two runs of RAGPipeline.answer, side by side
    runs            \* run -> its position, passages, generated text and result

reqVars == <<pc, body, request, relevant_docs, prompt, retrieverCalls, llmCalls,
             result, exc, response, failedBefore>>
ldVars  == <<ld_file, ld_start, ld_stop, ld_i, documents, ld_warnings, ld_pc>>
cfgVars == <<os_environ, dotenv, settings, phase, served>>
depVars == <<db_exists, cache, executions, next_id, tpc, locals, got, requests, tresponse>>
runVars == <<runs>>
vars    == <<reqVars, ldVars, cfgVars, depVars, runVars>>

(***************************************************************************)
(* Bounds of the model.                                                    *)
(***************************************************************************)
MaxRetrieved == 2   \* passages one retrieval returns in the model (<= TopK)

(***************************************************************************)
(* Python values.                                                          *)
(***************************************************************************)
PyNone == "<None>"

\* dict.get(key, default)
Get(d, key, default) == IF key \in DOMAIN d THEN d[key] ELSE default

\* truthiness of an Optional[str]
Truthy(v) == v # PyNone /\ v # ""

Min(a, b) == IF a < b THEN a ELSE b

X10  == "xxxxxxxxxx"
X50  == X10 \o X10 \o X10 \o X10 \o X10
X100 == X50 \o X50
X497 == X100 \o X100 \o X100 \o X100 \o X50 \o X10 \o X10 \o X10 \o X10 \o "xxxxxxx"

(***************************************************************************)
(* api/models.py                                                           *)
(***************************************************************************)
MinLength == 3
MaxLength == 500
Languages == {"Polish", "English"}
DefaultLanguage == "Polish"

ValidQuestionNoMax(q) == Len(q) >= MinLength

ValidQuestion(q) == Len(q) >= MinLength /\ Len(q) <= MaxLength

ValidLanguage(b) == "language" \in DOMAIN b => b.language \in Languages

\* pydantic's validation of the body against AskRequest
ValidBody(b) == ValidQuestion(b.question) /\ ValidLanguage(b)

AskRequest(b) ==
    [question |-> b.question, language |-> Get(b, "language", DefaultLanguage)]

AskResponse(r) == [status |-> 200, answer |-> r.answer, sources |-> r.sources]

\* request bodies a client may post
Questions == {"ab", "abc", X497 \o "abc", X497 \o "abcd"}
PostedLanguages == {"Polish", "English", "German"}
Bodies == {[question |-> q] : q \in Questions}
          \cup {[question |-> q, language |-> l] : q \in Questions, l \in PostedLanguages}

(***************************************************************************)
(* core/rag_pipeline.py                                                    *)
(***************************************************************************)
TopK == 5

\* passages of the index: page_content and metadata (keys may be missing)
Docs == {
    [page_content |-> "P1", metadata |-> [source |-> "https://u/a", title |-> "A"]],
    [page_content |-> "P2", metadata |-> [source |-> "https://u/a", title |-> "A-dup"]],
    [page_content |-> "P3", metadata |-> [source |-> "https://u/b"]],
    [page_content |-> "P4", metadata |-> [source |-> "", title |-> "E"]],
    [page_content |-> "P5", metadata |-> [title |-> "M"]] }

RECURSIVE SeqsUpTo(_, _)
SeqsUpTo(S, n) ==
    IF n = 0 THEN {<<>>}
    ELSE LET shorter == SeqsUpTo(S, n - 1)
         IN  shorter \cup {Append(s, x) : s \in shorter, x \in S}

\* what vector_store.as_retriever(search_kwargs={"k": top_k}).invoke may return
RetrieverResults == SeqsUpTo(Docs, Min(TopK, MaxRetrieved))

RetrieverErrors == {"index unavailable"}
LLMErrors == {"generation service error"}
LLMFallback == "Unfortunately, I could not find information on this topic in my knowledge base."
LLMOutputs == {"Generated answer.", LLMFallback}

ContextSeparator == "\n\n---\n\n"

RECURSIVE _format_context(_)
_format_context(docs) ==
    IF docs = <<>> THEN ""
    ELSE IF Len(docs) = 1 THEN Head(docs).page_content
    ELSE Head(docs).page_content \o ContextSeparator \o _format_context(Tail(docs))

ShouldAddNoDedupe(source_url, unique_urls) == Truthy(source_url)

\* line 115: if source_url and source_url not in unique_urls
ShouldAdd(source_url, unique_urls) ==
    Truthy(source_url) /\ source_url \notin unique_urls

AddSourceFront(sources, doc, source_url) ==
    <<[url |-> source_url, title |-> Get(doc.metadata, "title", "No Title")]>> \o sources

\* lines 116-119: sources.append({...})
AddSource(sources, doc, source_url) ==
    Append(sources, [url |-> source_url, title |-> Get(doc.metadata, "title", "No Title")])

RECURSIVE FormatSourcesLoop(_, _, _)
FormatSourcesLoop(docs, sources, unique_urls) ==
    IF docs = <<>> THEN sources
    ELSE LET doc == Head(docs)
             source_url == Get(doc.metadata, "source", PyNone)
         IN  IF ShouldAdd(source_url, unique_urls)
             THEN FormatSourcesLoop(Tail(docs), AddSource(sources, doc, source_url),
                                    unique_urls \cup {source_url})
             ELSE FormatSourcesLoop(Tail(docs), sources, unique_urls)

_format_sources(docs) == FormatSourcesLoop(docs, <<>>, {})

\* RunnablePassthrough: hands on its input unchanged
RunnablePassthrough(input) == input

\* str() of the input dict, as str.format renders a dict-valued parameter
PyStrDict(d) ==
    "{'question': '" \o d.question \o "', 'language': '" \o d.language \o "'}"

\* RunnableParallel(context=retrieval_chain, question=..., language=...) on
\* input_data, given what the retriever returned inside retrieval_chain
RunnableParallel(input_data, docs) ==
    [context  |-> _format_context(docs),
     question |-> RunnablePassthrough(input_data),
     language |-> RunnablePassthrough(input_data)]

\* ChatPromptTemplate.from_template(RAG_PROMPT_TEMPLATE): the values filled in
\* for {language}, {context} and {question}
PromptFormat(v) ==
    [language |-> PyStrDict(v.language),
     context  |-> v.context,
     question |-> PyStrDict(v.question)]

AnsweredResultNoSourcesOnFallback(generated_answer, docs) ==
    [answer |-> generated_answer,
     sources |-> IF generated_answer = LLMFallback THEN <<>> ELSE _format_sources(docs)]

\* lines 152-157: the dict answer returns on the Answered path
AnsweredResult(generated_answer, docs) ==
    [answer |-> generated_answer, sources |-> _format_sources(docs)]

NotFoundAnswer ==
    "Unfortunately, I could not find any relevant information in my knowledge base."

IsEmptyNever(docs) == FALSE

\* line 140: if not relevant_docs
IsEmpty(docs) == docs = <<>>

(***************************************************************************)
(* api/endpoints.py                                                        *)
(***************************************************************************)
ErrorPrefix == "An internal error occurred while processing the request: "

HTTPException500NoMessage(e) == [status |-> 500, detail |-> ErrorPrefix]

\* lines 55-63: except Exception as e: raise HTTPException(500, f"...{e}")
HTTPException500(e) == [status |-> 500, detail |-> ErrorPrefix \o e]

\* the framework's answer to a body that fails AskRequest's validation
ValidationError422 == [status |-> 422, detail |-> "validation error"]

NoRequest  == [question |-> PyNone, language |-> PyNone]
NoPrompt   == [language |-> PyNone, context |-> PyNone, question |-> PyNone]
NoResult   == [answer |-> PyNone, sources |-> <<>>]
NoResponse == [status |-> 0]
NoExc      == PyNone

InitReq ==
    /\ pc = "idle"
    /\ body = [question |-> ""]
    /\ request = NoRequest
    /\ relevant_docs = <<>>
    /\ prompt = NoPrompt
    /\ retrieverCalls = 0
    /\ llmCalls = 0
    /\ result = NoResult
    /\ exc = NoExc
    /\ response = NoResponse
    /\ failedBefore = FALSE

\* A POST /api/v1/ask arrives: the body is validated against AskRequest before
\* ask runs; an invalid body is answered 422 and ask is not called.
Receive ==
    /\ pc \in {"idle", "done"}
    /\ \E b \in Bodies :
        /\ body' = b
        /\ IF ValidBody(b)
           THEN /\ request' = AskRequest(b)
                /\ response' = NoResponse
                /\ pc' = "answer"
           ELSE /\ request' = NoRequest
                /\ response' = ValidationError422
                /\ pc' = "done"
    /\ relevant_docs' = <<>>
    /\ prompt' = NoPrompt
    /\ retrieverCalls' = 0
    /\ llmCalls' = 0
    /\ result' = NoResult
    /\ exc' = NoExc
    /\ failedBefore' = (failedBefore \/ exc # NoExc)
    /\ UNCHANGED <<ldVars, cfgVars, depVars, runVars>>

\* answer, line 137: relevant_docs = self.retriever.invoke(question), and the
\* empty-result return of lines 140-145 (then ask's AskResponse(**result)).
RetrieverInvoke ==
    /\ pc = "answer"
    /\ \E docs \in RetrieverResults :
        /\ relevant_docs' = docs
        /\ retrieverCalls' = retrieverCalls + 1
        /\ IF IsEmpty(docs)
           THEN /\ result' = [answer |-> NotFoundAnswer, sources |-> <<>>]
                /\ response' = AskResponse(result')
                /\ pc' = "done"
           ELSE /\ UNCHANGED <<result, response>>
                /\ pc' = "chain"
    /\ UNCHANGED <<body, request, prompt, llmCalls, exc, failedBefore, ldVars, cfgVars, depVars, runVars>>

\* the retriever raises at line 137: nothing in answer catches it, ask's
\* except clause turns it into an HTTPException(500).
RetrieverRaise ==
    /\ pc = "answer"
    /\ \E e \in RetrieverErrors :
        /\ exc' = e
        /\ response' = HTTPException500(e)
    /\ retrieverCalls' = retrieverCalls + 1
    /\ pc' = "done"
    /\ UNCHANGED <<body, request, relevant_docs, prompt, llmCalls, result, failedBefore, ldVars, cfgVars, depVars, runVars>>

\* answer, line 152: self.chain.invoke(input_data), up to the prompt: the
\* RunnableParallel step runs retrieval_chain, which queries the retriever again.
ChainRetrieve ==
    /\ pc = "chain"
    /\ \E docs \in RetrieverResults :
        LET input_data == [question |-> request.question, language |-> request.language]
        IN  prompt' = PromptFormat(RunnableParallel(input_data, docs))
    /\ retrieverCalls' = retrieverCalls + 1
    /\ pc' = "llm"
    /\ UNCHANGED <<body, request, relevant_docs, llmCalls, result, exc, response, failedBefore, ldVars, cfgVars, depVars, runVars>>

ChainRetrieveRaise ==
    /\ pc = "chain"
    /\ \E e \in RetrieverErrors :
        /\ exc' = e
        /\ response' = HTTPException500(e)
    /\ retrieverCalls' = retrieverCalls + 1
    /\ pc' = "done"
    /\ UNCHANGED <<body, request, relevant_docs, prompt, llmCalls, result, failedBefore, ldVars, cfgVars, depVars, runVars>>

\* the chain's "| self.llm | StrOutputParser()", then lines 155-157 and ask's
\* AskResponse(**result).
LLMInvoke ==
    /\ pc = "llm"
    /\ \E generated_answer \in LLMOutputs :
        /\ result' = AnsweredResult(generated_answer, relevant_docs)
        /\ response' = AskResponse(result')
    /\ llmCalls' = llmCalls + 1
    /\ pc' = "done"
    /\ UNCHANGED <<body, request, relevant_docs, prompt, retrieverCalls, exc, failedBefore, ldVars, cfgVars, depVars, runVars>>

LLMRaise ==
    /\ pc = "llm"
    /\ \E e \in LLMErrors :
        /\ exc' = e
        /\ response' = HTTPException500(e)
    /\ llmCalls' = llmCalls + 1
    /\ pc' = "done"
    /\ UNCHANGED <<body, request, relevant_docs, prompt, retrieverCalls, result, failedBefore, ldVars, cfgVars, depVars, runVars>>

Next ==
    \/ Receive
    \/ RetrieverInvoke
    \/ RetrieverRaise
    \/ ChainRetrieve
    \/ ChainRetrieveRaise
    \/ LLMInvoke
    \/ LLMRaise

(***************************************************************************)
(* Parked values of the other parts.                                       *)
(***************************************************************************)
NoFile == <<"<no file>">>
NoStop == -1
Absent == <<"<absent>">>
Unset  == <<"<unset>">>
NoInstance == 0
Providers == {"get_embedding_model", "get_vector_store", "get_llm", "get_rag_pipeline"}

\* the two runs compared, before either has started
Runs == {1, 2}
NoRun == [rpc |-> "start", docs |-> <<>>, generated |-> PyNone, result |-> NoResult]
InitRuns == runs = [r \in Runs |-> NoRun]

ParkedLd ==
    /\ ld_file = NoFile /\ ld_start = 0 /\ ld_stop = NoStop /\ ld_i = 0
    /\ documents = <<>> /\ ld_warnings = <<>> /\ ld_pc = "returned"

ParkedCfg ==
    /\ os_environ = <<"s", "k">> /\ dotenv = Absent /\ settings = <<"s", "k">>
    /\ phase = "serving" /\ served = 0

ParkedDep ==
    /\ db_exists = TRUE
    /\ cache = [p \in Providers |-> NoInstance]
    /\ executions = [p \in Providers |-> 0]
    /\ next_id = 1
    /\ tpc = <<>> /\ locals = <<>> /\ got = <<>> /\ requests = <<>>
    /\ tresponse = <<>>

Init == InitReq /\ ParkedLd /\ ParkedCfg /\ ParkedDep /\ InitRuns
Spec == Init /\ [][Next]_vars

(***************************************************************************)
(* data_processing/loader.py: load_and_prepare_documents                   *)
(***************************************************************************)
MaxLines == 3   \* lines of the input file in the model

\* lines an input file may hold
LineFull   == "{\"title\": \"T\", \"h1\": \"H\", \"text\": \"X\", \"url\": \"https://u/a\", \"content_hash\": \"c1\"}"
LineNoHead == "{\"text\": \"Y\", \"url\": \"https://u/b\"}"
LineBroken == "{\"title\": \"T\""
LineArray  == "[1, 2]"
LineNull   == "null"
Lines == {LineFull, LineNoHead, LineBroken, LineArray, LineNull}

\* json.loads on these lines: a dict, another JSON value, or JSONDecodeError
json_loads(line) ==
    CASE line = LineFull   -> [kind |-> "dict",
                               value |-> [title |-> "T", h1 |-> "H", text |-> "X",
                                          url |-> "https://u/a", content_hash |-> "c1"]]
      [] line = LineNoHead -> [kind |-> "dict",
                               value |-> [text |-> "Y", url |-> "https://u/b"]]
      [] line = LineArray  -> [kind |-> "list"]
      [] line = LineNull   -> [kind |-> "NoneType"]
      [] OTHER             -> [kind |-> "JSONDecodeError"]

\* lines 57-69: the Document built from a parsed dict
Document(data) ==
    [page_content |-> "Page Title: " \o Get(data, "title", "N/A") \o "\n"
                      \o "H1 Header: " \o Get(data, "h1", "N/A") \o "\n\n"
                      \o Get(data, "text", ""),
     metadata |-> [source |-> Get(data, "url", ""),
                   title |-> Get(data, "title", "No Title"),
                   content_hash |-> Get(data, "content_hash", "")]]

\* lines 72 and 78: except json.JSONDecodeError / except (TypeError, KeyError)
Caught(kind) == kind \in {"JSONDecodeError", "TypeError", "KeyError"}

\* what the try body of lines 54-70 raises on a parsed line: data.get exists
\* on a dict only
Raises(parsed) ==
    IF parsed.kind = "JSONDecodeError" THEN "JSONDecodeError"
    ELSE IF parsed.kind # "dict" THEN "AttributeError"
    ELSE PyNone

\* islice(f, start, stop): the index one past the last line read
SliceEnd == IF ld_stop = NoStop THEN Len(ld_file) ELSE Min(ld_stop, Len(ld_file))

InitLd ==
    /\ ld_file \in SeqsUpTo(Lines, MaxLines) \cup {NoFile}
    /\ ld_start \in 0..1
    /\ ld_stop \in {NoStop, 2}
    /\ ld_i = 0
    /\ documents = <<>>
    /\ ld_warnings = <<>>
    /\ ld_pc = "open"

\* lines 46-50 and 85-89: open the file; a missing file returns []
Open ==
    /\ ld_pc = "open"
    /\ IF ld_file = NoFile
       THEN ld_pc' = "returned" /\ ld_i' = ld_i
       ELSE ld_pc' = "loop" /\ ld_i' = ld_start
    /\ UNCHANGED <<ld_file, ld_start, ld_stop, documents, ld_warnings>>
    /\ UNCHANGED <<reqVars, cfgVars, depVars, runVars>>

\* lines 52-83: one iteration of the for loop
LoopBody ==
    /\ ld_pc = "loop"
    /\ ld_i < SliceEnd
    /\ LET line == ld_file[ld_i + 1]
           parsed == json_loads(line)
           raised == Raises(parsed)
       IN  IF raised = PyNone
           THEN /\ documents' = Append(documents, Document(parsed.value))
                /\ UNCHANGED <<ld_warnings, ld_pc>>
           ELSE IF Caught(raised)
           THEN /\ ld_warnings' = Append(ld_warnings, ld_i + 1)
                /\ UNCHANGED <<documents, ld_pc>>
           ELSE /\ ld_pc' = "raised"
                /\ UNCHANGED <<documents, ld_warnings>>
    /\ ld_i' = ld_i + 1
    /\ UNCHANGED <<ld_file, ld_start, ld_stop>>
    /\ UNCHANGED <<reqVars, cfgVars, depVars, runVars>>

\* lines 91-92: the iterator is exhausted
Return ==
    /\ ld_pc = "loop"
    /\ ld_i >= SliceEnd
    /\ ld_pc' = "returned"
    /\ UNCHANGED <<ld_file, ld_start, ld_stop, ld_i, documents, ld_warnings>>
    /\ UNCHANGED <<reqVars, cfgVars, depVars, runVars>>

NextLoader == Open \/ LoopBody \/ Return

InitLoader == InitReq /\ InitLd /\ ParkedCfg /\ ParkedDep /\ InitRuns
SpecLoader == InitLoader /\ [][NextLoader]_vars

(***************************************************************************)
(* config.py: settings = Settings() at import, reached from main.py        *)
(***************************************************************************)
MaxServed == 2   \* requests the started process serves in the model

\* a key is a sequence of characters
Whitespace == {" ", "\t", "\n"}
NoneKey == <<"<None>">>
KeyValues == { <<>>, <<" ">>, <<" ", "\t">>, <<"s", "k">>, <<" ", "s", "k", " ">> }

RECURSIVE lstrip(_)
lstrip(v) == IF v # <<>> /\ Head(v) \in Whitespace THEN lstrip(Tail(v)) ELSE v

RECURSIVE rstrip(_)
rstrip(v) ==
    IF v # <<>> /\ v[Len(v)] \in Whitespace THEN rstrip(SubSeq(v, 1, Len(v) - 1)) ELSE v

\* str.strip()
strip(v) == rstrip(lstrip(v))

KeyRejectedNoStrip(v) == v = NoneKey \/ v = <<>>

\* line 52: if v is None or not v.strip(): raise ValueError
KeyRejected(v) == v = NoneKey \/ strip(v) = <<>>

\* the value Settings() finds for OPENAI_API_KEY: the environment first, then
\* the env_file, then the field's default None (line 44)
FieldValue ==
    IF os_environ # Absent THEN os_environ
    ELSE IF dotenv # Absent THEN dotenv
    ELSE NoneKey

InitCfg ==
    /\ os_environ \in KeyValues \cup {Absent}
    /\ dotenv \in KeyValues \cup {Absent}
    /\ settings = Unset
    /\ phase = "start"
    /\ served = 0

\* main.py line 15: load_dotenv() copies .env entries the environment lacks
LoadDotenv ==
    /\ phase = "start"
    /\ os_environ' = IF os_environ = Absent THEN dotenv ELSE os_environ
    /\ phase' = "dotenv_loaded"
    /\ UNCHANGED <<dotenv, settings, served>>
    /\ UNCHANGED <<reqVars, ldVars, depVars, runVars>>

\* main.py line 18 imports endpoints -> dependencies -> config, whose line 63
\* runs Settings(); BaseSettings validates the field's value, its default
\* included, with validate_api_key_is_present. A ValueError fails the import.
ImportConfig ==
    /\ phase = "dotenv_loaded"
    /\ IF KeyRejected(FieldValue)
       THEN phase' = "import_failed" /\ settings' = settings
       ELSE phase' = "imported" /\ settings' = FieldValue
    /\ UNCHANGED <<os_environ, dotenv, served>>
    /\ UNCHANGED <<reqVars, ldVars, depVars, runVars>>

\* main.py lines 40-45: the app object exists and the server serves it
StartServing ==
    /\ phase = "imported"
    /\ phase' = "serving"
    /\ UNCHANGED <<os_environ, dotenv, settings, served>>
    /\ UNCHANGED <<reqVars, ldVars, depVars, runVars>>

\* main.py lines 49-57: a request is served
ServeRequest ==
    /\ phase = "serving"
    /\ served < MaxServed
    /\ served' = served + 1
    /\ UNCHANGED <<os_environ, dotenv, settings, phase>>
    /\ UNCHANGED <<reqVars, ldVars, depVars, runVars>>

NextSettings == LoadDotenv \/ ImportConfig \/ StartServing \/ ServeRequest

InitSettings == InitReq /\ ParkedLd /\ InitCfg /\ ParkedDep /\ InitRuns
SpecSettings == InitSettings /\ [][NextSettings]_vars

(***************************************************************************)
(* core/dependencies.py: the @lru_cache(maxsize=1) providers, called from  *)
(* the pool threads that resolve Depends(get_rag_pipeline)                 *)
(***************************************************************************)
NumThreads == 2    \* threads of the request pool in the model
MaxRequests == 2   \* requests one thread handles in the model

Threads == 1..NumThreads

NoLocals == [llm |-> NoInstance, vector_store |-> NoInstance, embedding_model |-> NoInstance]

\* lines 64-67: the message of get_vector_store's FileNotFoundError (the
\* backquotes around the command are left out)
VectorDbNotFound ==
    "Vector database not found at 'vector_db'. "
    \o "Please run the indexing script first: python scripts/build_index.py"

\* an exception raised while Depends(get_rag_pipeline) is resolved is raised
\* before ask is entered, so ask's try/except (lines 49-63) does not see it:
\* the server answers with its bare 500
UnhandledError500(e) == [status |-> 500, body |-> "Internal Server Error"]

\* what a request answers once its pipeline is injected
AskOutcomes ==
    {ValidationError422, AskResponse([answer |-> NotFoundAnswer, sources |-> <<>>])}
    \cup {AskResponse([answer |-> a, sources |-> _format_sources(d)]) :
              a \in LLMOutputs, d \in SeqsUpTo(Docs, 1) \ {<<>>}}
    \cup {HTTPException500(e) : e \in RetrieverErrors \cup LLMErrors}

\* lru_cache: the wrapper stores a computed result unless the key is already
\* cached (another thread stored it during the call); the caller gets the
\* result it computed either way
Store(p, instance) ==
    IF cache[p] = NoInstance THEN [cache EXCEPT ![p] = instance] ELSE cache

InitDep ==
    /\ db_exists \in BOOLEAN
    /\ cache = [p \in Providers |-> NoInstance]
    /\ executions = [p \in Providers |-> 0]
    /\ next_id = 1
    /\ tpc = [t \in Threads |-> "idle"]
    /\ locals = [t \in Threads |-> NoLocals]
    /\ got = [t \in Threads |-> NoInstance]
    /\ requests = [t \in Threads |-> 0]
    /\ tresponse = [t \in Threads |-> NoResponse]

\* a request arrives and its thread calls get_rag_pipeline(): a cache hit
\* returns the memoized pipeline, a miss enters the body (lines 104-105)
CallGetRagPipeline(t) ==
    /\ tpc[t] = "idle"
    /\ requests[t] < MaxRequests
    /\ requests' = [requests EXCEPT ![t] = @ + 1]
    /\ locals' = [locals EXCEPT ![t] = NoLocals]
    /\ tresponse' = [tresponse EXCEPT ![t] = NoResponse]
    /\ IF cache["get_rag_pipeline"] # NoInstance
       THEN /\ got' = [got EXCEPT ![t] = cache["get_rag_pipeline"]]
            /\ tpc' = [tpc EXCEPT ![t] = "injected"]
            /\ UNCHANGED executions
       ELSE /\ executions' = [executions EXCEPT !["get_rag_pipeline"] = @ + 1]
            /\ tpc' = [tpc EXCEPT ![t] = "rag:get_llm"]
            /\ got' = [got EXCEPT ![t] = NoInstance]
    /\ UNCHANGED <<db_exists, cache, next_id>>
    /\ UNCHANGED <<reqVars, ldVars, cfgVars, runVars>>

\* line 105: llm = get_llm()
CallGetLlm(t) ==
    /\ tpc[t] = "rag:get_llm"
    /\ IF cache["get_llm"] # NoInstance
       THEN /\ locals' = [locals EXCEPT ![t].llm = cache["get_llm"]]
            /\ tpc' = [tpc EXCEPT ![t] = "rag:get_vector_store"]
            /\ UNCHANGED executions
       ELSE /\ executions' = [executions EXCEPT !["get_llm"] = @ + 1]
            /\ tpc' = [tpc EXCEPT ![t] = "llm:body"]
            /\ UNCHANGED locals
    /\ UNCHANGED <<db_exists, cache, next_id, got, requests, tresponse>>
    /\ UNCHANGED <<reqVars, ldVars, cfgVars, runVars>>

\* lines 89-92: the body of get_llm, and the wrapper's store
LlmBody(t) ==
    /\ tpc[t] = "llm:body"
    /\ cache' = Store("get_llm", next_id)
    /\ locals' = [locals EXCEPT ![t].llm = next_id]
    /\ next_id' = next_id + 1
    /\ tpc' = [tpc EXCEPT ![t] = "rag:get_vector_store"]
    /\ UNCHANGED <<db_exists, executions, got, requests, tresponse>>
    /\ UNCHANGED <<reqVars, ldVars, cfgVars, runVars>>

\* line 106: vector_store = get_vector_store()
CallGetVectorStore(t) ==
    /\ tpc[t] = "rag:get_vector_store"
    /\ IF cache["get_vector_store"] # NoInstance
       THEN /\ locals' = [locals EXCEPT ![t].vector_store = cache["get_vector_store"]]
            /\ tpc' = [tpc EXCEPT ![t] = "rag:construct"]
            /\ UNCHANGED executions
       ELSE /\ executions' = [executions EXCEPT !["get_vector_store"] = @ + 1]
            /\ tpc' = [tpc EXCEPT ![t] = "vs:exists"]
            /\ UNCHANGED locals
    /\ UNCHANGED <<db_exists, cache, next_id, got, requests, tresponse>>
    /\ UNCHANGED <<reqVars, ldVars, cfgVars, runVars>>

\* lines 62-69: a missing database raises FileNotFoundError, which leaves
\* get_vector_store and get_rag_pipeline without a stored result
VectorStoreExists(t) ==
    /\ tpc[t] = "vs:exists"
    /\ tpc' = [tpc EXCEPT ![t] = IF db_exists THEN "vs:get_embedding_model" ELSE "failed"]
    /\ tresponse' = IF db_exists THEN tresponse
                    ELSE [tresponse EXCEPT ![t] = UnhandledError500(VectorDbNotFound)]
    /\ UNCHANGED <<db_exists, cache, executions, next_id, locals, got, requests>>
    /\ UNCHANGED <<reqVars, ldVars, cfgVars, runVars>>

\* line 71: embedding_model = get_embedding_model()
CallGetEmbeddingModel(t) ==
    /\ tpc[t] = "vs:get_embedding_model"
    /\ IF cache["get_embedding_model"] # NoInstance
       THEN /\ locals' = [locals EXCEPT ![t].embedding_model = cache["get_embedding_model"]]
            /\ tpc' = [tpc EXCEPT ![t] = "vs:construct"]
            /\ UNCHANGED executions
       ELSE /\ executions' = [executions EXCEPT !["get_embedding_model"] = @ + 1]
            /\ tpc' = [tpc EXCEPT ![t] = "emb:body"]
            /\ UNCHANGED locals
    /\ UNCHANGED <<db_exists, cache, next_id, got, requests, tresponse>>
    /\ UNCHANGED <<reqVars, ldVars, cfgVars, runVars>>

\* lines 40-47: the body of get_embedding_model, and the wrapper's store
EmbeddingModelBody(t) ==
    /\ tpc[t] = "emb:body"
    /\ cache' = Store("get_embedding_model", next_id)
    /\ locals' = [locals EXCEPT ![t].embedding_model = next_id]
    /\ next_id' = next_id + 1
    /\ tpc' = [tpc EXCEPT ![t] = "vs:construct"]
    /\ UNCHANGED <<db_exists, executions, got, requests, tresponse>>
    /\ UNCHANGED <<reqVars, ldVars, cfgVars, runVars>>

\* lines 72-77: Chroma(...), return, and the wrapper's store
VectorStoreConstruct(t) ==
    /\ tpc[t] = "vs:construct"
    /\ cache' = Store("get_vector_store", next_id)
    /\ locals' = [locals EXCEPT ![t].vector_store = next_id]
    /\ next_id' = next_id + 1
    /\ tpc' = [tpc EXCEPT ![t] = "rag:construct"]
    /\ UNCHANGED <<db_exists, executions, got, requests, tresponse>>
    /\ UNCHANGED <<reqVars, ldVars, cfgVars, runVars>>

\* lines 107-109: RAGPipeline(llm=llm, vector_store=vector_store), return,
\* and the wrapper's store; the caller is handed the pipeline it built
RagPipelineConstruct(t) ==
    /\ tpc[t] = "rag:construct"
    /\ cache' = Store("get_rag_pipeline", next_id)
    /\ got' = [got EXCEPT ![t] = next_id]
    /\ next_id' = next_id + 1
    /\ tpc' = [tpc EXCEPT ![t] = "injected"]
    /\ UNCHANGED <<db_exists, executions, locals, requests, tresponse>>
    /\ UNCHANGED <<reqVars, ldVars, cfgVars, runVars>>

\* endpoints.py lines 30-63: with the pipeline injected, the body is validated
\* and ask runs pipeline.answer; the outcomes are those of Spec
Ask(t) ==
    /\ tpc[t] = "injected"
    /\ \E r \in AskOutcomes : tresponse' = [tresponse EXCEPT ![t] = r]
    /\ tpc' = [tpc EXCEPT ![t] = "responded"]
    /\ UNCHANGED <<db_exists, cache, executions, next_id, locals, got, requests>>
    /\ UNCHANGED <<reqVars, ldVars, cfgVars, runVars>>

\* the response is sent and the thread goes back to the pool
EndRequest(t) ==
    /\ tpc[t] \in {"responded", "failed"}
    /\ tpc' = [tpc EXCEPT ![t] = "idle"]
    /\ tresponse' = [tresponse EXCEPT ![t] = NoResponse]
    /\ UNCHANGED <<db_exists, cache, executions, next_id, locals, got, requests>>
    /\ UNCHANGED <<reqVars, ldVars, cfgVars, runVars>>

NextDeps ==
    \E t \in Threads :
        \/ CallGetRagPipeline(t)
        \/ CallGetLlm(t)
        \/ LlmBody(t)
        \/ CallGetVectorStore(t)
        \/ VectorStoreExists(t)
        \/ CallGetEmbeddingModel(t)
        \/ EmbeddingModelBody(t)
        \/ VectorStoreConstruct(t)
        \/ RagPipelineConstruct(t)
        \/ Ask(t)
        \/ EndRequest(t)

InitDeps == InitReq /\ ParkedLd /\ ParkedCfg /\ InitDep /\ InitRuns
SpecDeps == InitDeps /\ [][NextDeps]_vars


(***************************************************************************)
(* Two runs of RAGPipeline.answer side by side: each retrieves passages    *)
(* and, on the Answered path, is given a text by the generator (any of     *)
(* LLMOutputs, whatever prompt it was handed).                             *)
(***************************************************************************)
\* answer, lines 137-145 of run r
RunRetrieve(r) ==
    /\ runs[r].rpc = "start"
    /\ \E docs \in RetrieverResults :
        runs' = [runs EXCEPT ![r] =
                    IF IsEmpty(docs)
                    THEN [@ EXCEPT !.rpc = "done", !.docs = docs,
                                   !.result = [answer |-> NotFoundAnswer, sources |-> <<>>]]
                    ELSE [@ EXCEPT !.rpc = "chain", !.docs = docs]]
    /\ UNCHANGED <<reqVars, ldVars, cfgVars, depVars>>

\* answer, lines 148-157 of run r
RunGenerate(r) ==
    /\ runs[r].rpc = "chain"
    /\ \E generated_answer \in LLMOutputs :
        runs' = [runs EXCEPT ![r] =
                    [@ EXCEPT !.rpc = "done", !.generated = generated_answer,
                              !.result = AnsweredResult(generated_answer, runs[r].docs)]]
    /\ UNCHANGED <<reqVars, ldVars, cfgVars, depVars>>

NextRuns == \E r \in Runs : RunRetrieve(r) \/ RunGenerate(r)

SpecRuns == Init /\ [][NextRuns]_vars


(***************************************************************************)
(* Properties of POST /api/v1/ask and RAGPipeline.answer, checked under    *)
(* Spec.                                                                   *)
(***************************************************************************)
\* the Answered path: the generator returned and answer built its result
Answered == pc = "done" /\ llmCalls = 1 /\ exc = NoExc

UrlOf(doc) == Get(doc.metadata, "source", PyNone)

\* C1: on the Answered path the sources returned by RAGPipeline.answer hold
\* no two entries with the same url and no entry whose url is empty or missing.
C1_SourcesUniqueNonEmpty ==
    Answered =>
        LET s == result.sources
        IN  /\ \A i, j \in DOMAIN s : i # j => s[i].url # s[j].url
            /\ \A i \in DOMAIN s : s[i].url # "" /\ s[i].url # PyNone

\* an answered request whose passages include one without a usable url and
\* one with a url
C1_Witness ==
    /\ Answered
    /\ \E i \in DOMAIN relevant_docs : UrlOf(relevant_docs[i]) \in {"", PyNone}
    /\ Len(result.sources) = 1

\* C2: when the retriever returns zero passages, answer returns exactly the
\* fixed "no relevant information" answer with no sources, the request is
\* finished, and the generator was never invoked for it.
C2_EmptyRetrievalNotFound ==
    (retrieverCalls >= 1 /\ exc = NoExc /\ relevant_docs = <<>>) =>
        /\ pc = "done"
        /\ llmCalls = 0
        /\ prompt = NoPrompt
        /\ result = [answer |-> "Unfortunately, I could not find any relevant information in my knowledge base.",
                     sources |-> <<>>]
        /\ response = [status |-> 200, answer |-> result.answer, sources |-> <<>>]

C2_Witness ==
    /\ pc = "done" /\ retrieverCalls = 1 /\ exc = NoExc
    /\ relevant_docs = <<>> /\ response.status = 200

\* C3: the prompt handed to the generator has {question} filled with exactly
\* the request's question and {language} with exactly the request's language.
C3_PromptQuestionAndLanguage ==
    prompt # NoPrompt =>
        /\ prompt.question = request.question
        /\ prompt.language = request.language

\* C4: the context handed to the generator is the page contents of the
\* passages retrieved for this request (the ones tested for emptiness and
\* used for the sources), joined in order with ContextSeparator.
C4_ContextFromRetrievedPassages ==
    prompt # NoPrompt => prompt.context = _format_context(relevant_docs)

\* C5: sources are ordered by the first occurrence of each distinct non-empty
\* url among the retrieved passages, each with the title of that first passage.
C5_SourcesFirstOccurrence ==
    Answered =>
        LET docs == relevant_docs
            s == result.sources
            First(u) == CHOOSE i \in DOMAIN docs :
                            /\ UrlOf(docs[i]) = u
                            /\ \A j \in 1..(i - 1) : UrlOf(docs[j]) # u
        IN  /\ {s[k].url : k \in DOMAIN s}
                 = {UrlOf(docs[i]) : i \in DOMAIN docs} \ {"", PyNone}
            /\ \A k, l \in DOMAIN s : k < l => First(s[k].url) < First(s[l].url)
            /\ \A k \in DOMAIN s :
                 s[k].title = Get(docs[First(s[k].url)].metadata, "title", "No Title")

\* the example of the specification: {u/a, A} then {u/a, A-dup}
C5_Witness ==
    /\ Answered
    /\ relevant_docs =
         << [page_content |-> "P1", metadata |-> [source |-> "https://u/a", title |-> "A"]],
            [page_content |-> "P2", metadata |-> [source |-> "https://u/a", title |-> "A-dup"]] >>
    /\ result.sources = << [url |-> "https://u/a", title |-> "A"] >>

\* C6: an exception of the retriever or the generator is not caught inside
\* answer (answer returns nothing); the request ends with HTTP 500 whose detail
\* carries the exception's message; and requests that follow a failed one are
\* handled as usual.
C6_ExceptionBecomes500 ==
    /\ exc # NoExc =>
        /\ pc = "done"
        /\ result = NoResult
        /\ response = [status |-> 500,
                       detail |-> "An internal error occurred while processing the request: " \o exc]
    /\ (failedBefore /\ pc = "done" /\ exc = NoExc) =>
        IF request = NoRequest
        THEN response.status = 422
        ELSE response = [status |-> 200, answer |-> result.answer, sources |-> result.sources]

\* a request answered 200 by a process in which an earlier request failed
C6_Witness ==
    failedBefore /\ pc = "done" /\ llmCalls = 1 /\ response.status = 200

C8_BadLinesSkipped ==
    /\ ld_pc # "raised"
    /\ (ld_pc = "returned" /\ ld_file # NoFile) =>
        LET range == SubSeq(ld_file, ld_start + 1, SliceEnd)
            good == SelectSeq(range, LAMBDA l : json_loads(l).kind = "dict")
        IN  /\ documents = [k \in 1..Len(good) |-> Document(json_loads(good[k]).value)]
            /\ Len(ld_warnings) = Len(range) - Len(good)

(***************************************************************************)
(* Properties of Settings, checked under SpecSettings.                     *)
(***************************************************************************)
\* C9: when OPENAI_API_KEY is absent from the environment and the .env file,
\* or is empty or whitespace-only, Settings() is never constructed and the
\* process never serves a request.
C9_MissingKeyFailsStartup ==
    LET key == IF os_environ # Absent THEN os_environ ELSE dotenv
        bad == key = Absent \/ \A i \in DOMAIN key : key[i] \in {" ", "\t", "\n"}
    IN  bad => /\ phase \in {"start", "dotenv_loaded", "import_failed"}
               /\ settings = Unset
               /\ served = 0

\* the import has failed for a process with no key anywhere
C9_Witness ==
    phase = "import_failed" /\ os_environ = Absent /\ dotenv = Absent

(***************************************************************************)
(* Properties of the singleton providers, checked under SpecDeps.          *)
(***************************************************************************)
\* C10: with the database present, under every interleaving of requests each
\* provider's body runs at most once and every caller is handed the same
\* pipeline instance.
C10_ConstructedOnce ==
    db_exists =>
        /\ \A p \in Providers : executions[p] <= 1
        /\ \A t1, t2 \in Threads :
             (got[t1] # NoInstance /\ got[t2] # NoInstance) => got[t1] = got[t2]

\* C11: while the index store is missing, constructing the pipeline fails and
\* nothing is memoized for it, no request is handed a pipeline, reaches ask or
\* is answered 200, and each request ends as HTTP 500 whose detail string
\* carries the error message.
C11_MissingStoreIs500WithDetail ==
    ~db_exists =>
        /\ cache["get_vector_store"] = NoInstance
        /\ cache["get_rag_pipeline"] = NoInstance
        /\ \A t \in Threads :
            /\ tpc[t] \notin {"injected", "responded"}
            /\ got[t] = NoInstance
            /\ tresponse[t].status # 200
            /\ tpc[t] = "failed" =>
                /\ tresponse[t].status = 500
                /\ "detail" \in DOMAIN tresponse[t]
                /\ tresponse[t].detail = ErrorPrefix \o VectorDbNotFound

(***************************************************************************)
(* Properties of two runs of answer, checked under SpecRuns.               *)
(***************************************************************************)
RunAnswered(r) == runs[r].rpc = "done" /\ runs[r].generated # PyNone

\* C12: on the Answered path the answer is exactly the generated text, and
\* two runs that retrieved the same passages return the same sources whatever
\* the generator wrote in each.
C12_SourcesIndependentOfGeneratedText ==
    /\ \A r \in Runs : RunAnswered(r) => runs[r].result.answer = runs[r].generated
    /\ \A r1, r2 \in Runs :
         (RunAnswered(r1) /\ RunAnswered(r2) /\ runs[r1].docs = runs[r2].docs)
             => runs[r1].result.sources = runs[r2].result.sources

\* same passages, one run given the fallback sentence verbatim and the other
\* another text, sources cited in both
C12_Witness ==
    /\ RunAnswered(1) /\ RunAnswered(2)
    /\ runs[1].docs = runs[2].docs
    /\ runs[1].generated = "Unfortunately, I could not find information on this topic in my knowledge base."
    /\ runs[2].generated # runs[1].generated
    /\ runs[1].result.sources # <<>>

====
